---- MODULE Spec2Model ----
(* Strategic video frame sampling (utils/video_processor.py,              *)
(* extract_strategic_frames) as a state machine.                          *)
(*                                                                        *)
(* Time is exact rational arithmetic on a grid: one second is Scale       *)
(* ticks, and Scale is chosen so that every quotient the code computes    *)
(* (duration * 0.1, duration / (remaining + 2), subclip_duration /        *)
(* (middle_frames * 2), frame_count / fps) is a whole number of ticks for *)
(* the durations and frame budgets of the model (GridExact).  The code    *)
(* computes in binary floating point: where two timestamps are exactly    *)
(* 1.0 s apart (0.4 and 1.4) its "< 1.0" test can come out true by one    *)
(* rounding step, and it then keeps fewer frames than the exact           *)
(* arithmetic of this model.                                              *)
(*                                                                        *)
(* Spec is one call after another of extract_strategic_frames; PairSpec   *)
(* is a call and a second call with the same arguments, with a scan that  *)
(* finds no scene; AudioSpec is extract_and_transcribe_audio; VideoSpec   *)
(* is process_video around the sampler; DbSpec is several FileDatabase    *)
(* objects (utils/file_database.py) on one db_path.                       *)
EXTENDS Integers, Sequences, FiniteSets, TLC

\* ---------------------------------------------------------------- bounds
\* longest video of the model, in half seconds
MaxHalfSeconds == 20
\* largest max_frames argument of the model
MaxFrameBudget == 7
\* cap on the temporary sub-clip files left on disk by earlier calls
MaxTempFiles == 1
\* frames of sound in the longest audio track considered
MaxSamples == 3
\* FileDatabase instances alive at once (one per app run or session)
MaxInstances == 2

\* ------------------------------------------------------------ time grid
Scale == 2 * 2520
HalfSecond == Scale \div 2
OneSecond == Scale

Durations == { d * HalfSecond : d \in -1..MaxHalfSeconds }
FrameBudgets == 0..MaxFrameBudget
\* videos longer than the 60 s the scan covers, and their max_frames
LongDurations == {61 * Scale, 90 * Scale}
LongFrameBudgets == {3, 4}
Levels == {0, 40}
FpsValues == {1, 2}
NoFrame == -1

Min(a, b) == IF a <= b THEN a ELSE b
Max(a, b) == IF a >= b THEN a ELSE b
Abs(a) == IF a < 0 THEN -a ELSE a
Range(s) == { s[n] : n \in 1..Len(s) }

\* ---------------------------------------------------- program constants
threshold == 30
LongVideo == 60 * Scale
SceneMinDuration == 3 * Scale
MinSpacing == OneSecond

VARIABLES pc, duration, max_frames, fps, timestamps, scene_timestamps,
          frame_count, prev_frame, min_scene_length, subclip_duration,
          scene_idx, remaining_frames, existing_timestamps, step, fill_i,
          result, temp_files, decode_calls, reencode_calls, failure, detection,
          last_read, earlier,
          apc, audio, audio_array, sample_rate, transcript, transcribe_calls,
          vpc, options, gemini, frame_timestamps, results, temp_path,
          loaded, index, index_file, kept

vars == <<pc, duration, max_frames, fps, timestamps, scene_timestamps,
          frame_count, prev_frame, min_scene_length, subclip_duration,
          scene_idx, remaining_frames, existing_timestamps, step, fill_i,
          result, temp_files, decode_calls, reencode_calls, failure, detection,
          last_read, earlier,
          apc, audio, audio_array, sample_rate, transcript, transcribe_calls,
          vpc, options, gemini, frame_timestamps, results, temp_path,
          loaded, index, index_file, kept>>

\* the state of extract_and_transcribe_audio
AudioVars == <<apc, audio, audio_array, sample_rate, transcript, transcribe_calls>>
\* the state of process_video
VideoVars == <<vpc, options, gemini, frame_timestamps, results, temp_path>>
\* the FileDatabase instances and the index file they share
DbVars == <<loaded, index, index_file, kept>>
\* what a step of extract_strategic_frames never touches
Elsewhere == <<earlier, AudioVars, VideoVars, DbVars>>
\* no earlier call on record
NoCall == [made |-> FALSE]
\* video.audio is None
NoAudio == [present |-> FALSE, fps |-> 0, nchannels |-> 0, sound |-> <<>>]
\* the options dictionary before a call reads it
NoOptions == [analyze_video_frames |-> FALSE, extract_audio |-> FALSE,
              transcribe_audio |-> FALSE, generate_video_summary |-> FALSE]
\* no results dictionary yet
NoResults == [file_type |-> "none"]
\* ------------------------------------------------------ pure expressions
\* first_time = min(0.5, duration * 0.1)
first_time == Min(HalfSecond, duration \div 10)
\* an end anchor clipped to duration - 1 like the fallback candidates
last_time_clipped ==
    Min(Max(duration - HalfSecond, (duration * 9) \div 10), duration - OneSecond)
\* last_time = max(duration - 0.5, duration * 0.9)
last_time == Max(duration - HalfSecond, (duration * 9) \div 10)
\* interior slots that leave no room for the end anchor
middle_frames_all == max_frames - 1
\* middle_frames = max_frames - 2
middle_frames == max_frames - 2
\* any(abs(time - t) < 1.0 for t in ts)
TooClose(time, ts) == \E t \in ts : Abs(time - t) < MinSpacing
\* frame_time = frame_count / cap.get(CAP_PROP_FPS)
FrameTime(n) == (n * Scale) \div fps
\* frames of the re-encoded clip: those at times 0, 1/fps, ... < its length
ClipFrames(len) == Cardinality({ n \in 0..((len * fps) \div Scale) : FrameTime(n) < len })
\* a sort that leaves the list in insertion order
SortedNot(s) == s
\* sorted(...)
Sorted(s) == SortSeq(s, LAMBDA a, b : a < b)
\* sorted(set(...)): the distinct elements in ascending order
RECURSIVE Ascending(_)
Ascending(S) ==
    IF S = {} THEN <<>>
    ELSE LET m == CHOOSE x \in S : \A y \in S : x <= y
         IN  <<m>> \o Ascending(S \ {m})
SortedSet(s) == Ascending(Range(s))

Init ==
    /\ pc = "idle"
    /\ duration = 0
    /\ max_frames = 0
    /\ fps = 1
    /\ timestamps = <<>>
    /\ scene_timestamps = <<>>
    /\ frame_count = 0
    /\ prev_frame = NoFrame
    /\ min_scene_length = 0
    /\ subclip_duration = 0
    /\ scene_idx = 0
    /\ remaining_frames = 0
    /\ existing_timestamps = {}
    /\ step = 0
    /\ fill_i = 0
    /\ result = <<>>
    /\ temp_files = 0
    /\ decode_calls = 0
    /\ reencode_calls = 0
    /\ failure = "none"
    /\ detection = "none"
    /\ last_read = NoFrame
    /\ earlier = NoCall
    /\ apc = "idle"
    /\ audio = NoAudio
    /\ audio_array = <<>>
    /\ sample_rate = 0
    /\ transcript = <<>>
    /\ transcribe_calls = 0
    /\ vpc = "idle"
    /\ options = NoOptions
    /\ gemini = FALSE
    /\ frame_timestamps = <<>>
    /\ results = NoResults
    /\ temp_path = FALSE
    /\ loaded = {}
    /\ index = [i \in 1..MaxInstances |-> {}]
    /\ index_file = [exists |-> FALSE, files |-> {}]
    /\ kept = {}

\* ------------------------------------------------- conditions of the code
\* if duration > 3 and middle_frames > 0
RunsSceneDetection == duration > SceneMinDuration /\ middle_frames > 0
\* the acceptance loop without its "too close to first frame" test
SceneAcceptedNoStartTest(time) == ~(duration - time < MinSpacing)
\* the acceptance loop without its "too close to the end" test
SceneAcceptedNoEndTest(time) == ~(Abs(time - first_time) < MinSpacing)
\* the two "continue" tests of the scene acceptance loop
SceneAccepted(time) ==
    /\ ~(Abs(time - first_time) < MinSpacing)
    /\ ~(duration - time < MinSpacing)
\* if len(frames) < max_frames - 1
NeedsFill == Len(timestamps) < max_frames - 1
\* a fallback candidate that is not clipped to duration - 1
FillCandidateUnclipped(i) == first_time + (i * step)
\* a fallback candidate counted from 0 instead of first_time
FillCandidateFromZero(i) == Min(i * step, duration - OneSecond)
\* time = min(first_time + (i * step), duration - 1)
FillCandidate(i) == Min(first_time + (i * step), duration - OneSecond)
\* the fallback loop without its spacing test
FillAcceptedAlways(time) == TRUE
\* the fallback loop testing against half the spacing
FillAcceptedHalf(time) == ~(\E t \in existing_timestamps : Abs(time - t) < HalfSecond)
\* not any(abs(time - t) < 1.0 for t in existing_timestamps)
FillAccepted(time) == ~TooClose(time, existing_timestamps)
\* the end anchor tested against the start anchor only
EndAnchorAcceptedFirstOnly == ~TooClose(last_time, {timestamps[1]})
\* the end anchor tested against half the spacing
EndAnchorAcceptedHalf == ~(\E t \in Range(timestamps) : Abs(last_time - t) < HalfSecond)
\* not any(abs(last_time - t) < 1.0 for t in timestamps)
EndAnchorAccepted == ~TooClose(last_time, Range(timestamps))
\* subclip_duration = 60 if duration > 60 else duration
SubclipDuration == IF duration > LongVideo THEN LongVideo ELSE duration
\* a minimum scene length that does not grow with the clip
MinSceneLengthOne(len) == OneSecond
\* min_scene_length = max(1.0, subclip_duration / (middle_frames * 2))
MinSceneLength(len) == Max(OneSecond, len \div (middle_frames * 2))
\* scene times counted from the start anchor instead of the start of the video
OriginalTimeFromWindow(frame_time) == frame_time + first_time
\* original_time = min(frame_time, duration) if duration > 60 else frame_time
OriginalTime(frame_time) ==
    IF duration > LongVideo THEN Min(frame_time, duration) ELSE frame_time
\* mean absolute difference of two uniformly grey frames
MeanDiff(a, b) == Abs(a - b)

ScanLocals == <<scene_timestamps, frame_count, prev_frame, min_scene_length,
                subclip_duration, scene_idx, last_read>>
FillLocals == <<remaining_frames, existing_timestamps, step, fill_i>>
Inputs == <<duration, max_frames, fps>>
Effects == <<temp_files, decode_calls, reencode_calls>>

\* an early return that lets negative durations through
ReturnsEmptyOnlyZero(d) == d = 0
\* an early return that also drops videos of at most one second
ReturnsEmptyShort(d) == d <= OneSecond
\* an early return that lets a zero duration through
ReturnsEmptyNegative(d) == d < 0
\* if duration <= 0: return [], []
ReturnsEmpty(d) == d <= 0

\* ---------------------------------------------------------------- actions
\* extract_strategic_frames(video, options, max_frames): entry and the
\* duration <= 0 early return
Call ==
    /\ pc = "idle"
    /\ temp_files < MaxTempFiles
    /\ \E d \in Durations \cup LongDurations, m \in FrameBudgets, f \in FpsValues :
        /\ d \in LongDurations => m \in LongFrameBudgets
        /\ duration' = d
        /\ max_frames' = m
        /\ fps' = f
        /\ pc' = IF ReturnsEmpty(d) THEN "returned" ELSE "first"
    /\ UNCHANGED <<Elsewhere, timestamps, ScanLocals, FillLocals, result, Effects,
                   failure, detection>>

\* the call is over: its locals and its result go away with the caller's
\* use of them, the files it left on disk stay
DiscardLocals ==
    /\ pc \in {"returned", "raised"}
    /\ pc' = "idle"
    /\ duration' = 0
    /\ max_frames' = 0
    /\ fps' = 1
    /\ timestamps' = <<>>
    /\ scene_timestamps' = <<>>
    /\ frame_count' = 0
    /\ prev_frame' = NoFrame
    /\ min_scene_length' = 0
    /\ subclip_duration' = 0
    /\ scene_idx' = 0
    /\ remaining_frames' = 0
    /\ existing_timestamps' = {}
    /\ step' = 0
    /\ fill_i' = 0
    /\ result' = <<>>
    /\ decode_calls' = 0
    /\ reencode_calls' = 0
    /\ failure' = "none"
    /\ detection' = "none"
    /\ last_read' = NoFrame
    /\ UNCHANGED temp_files

Discard ==
    /\ DiscardLocals
    /\ UNCHANGED Elsewhere

\* an exception of video.get_frame outside the try block leaves the function
DecodeRaises ==
    /\ decode_calls' = decode_calls + 1
    /\ pc' = "raised"
    /\ failure' = "decode"
    /\ UNCHANGED <<Elsewhere, Inputs, timestamps, ScanLocals, FillLocals, result, temp_files,
                   reencode_calls, detection>>

\* frames.append(video.get_frame(first_time)); timestamps.append(first_time)
FirstAnchor ==
    /\ pc = "first"
    /\ decode_calls' = decode_calls + 1
    /\ timestamps' = Append(timestamps, first_time)
    /\ pc' = IF RunsSceneDetection THEN "reencode" ELSE "fallback"
    /\ UNCHANGED <<Elsewhere, Inputs, ScanLocals, FillLocals, result, temp_files, reencode_calls,
                   failure, detection>>

FirstAnchorFails ==
    /\ pc = "first"
    /\ DecodeRaises

\* NamedTemporaryFile(delete=False), write_videofile, VideoCapture and the
\* scene detection parameters
Reencode ==
    /\ pc = "reencode"
    /\ temp_files' = temp_files + 1
    /\ reencode_calls' = reencode_calls + 1
    /\ subclip_duration' = SubclipDuration
    /\ min_scene_length' = MinSceneLength(SubclipDuration)
    /\ prev_frame' = NoFrame
    /\ scene_timestamps' = <<>>
    /\ frame_count' = 0
    /\ last_read' = NoFrame
    /\ pc' = "scan"
    /\ detection' = "running"
    /\ UNCHANGED <<Elsewhere, Inputs, timestamps, scene_idx, FillLocals, result, decode_calls,
                   failure>>

\* write_videofile raises: the temporary file exists already, the except
\* clause prints and sets scene_timestamps = []
ReencodeFails ==
    /\ pc = "reencode"
    /\ temp_files' = temp_files + 1
    /\ reencode_calls' = reencode_calls + 1
    /\ scene_timestamps' = <<>>
    /\ pc' = "fallback"
    /\ detection' = "reencode_failed"
    /\ UNCHANGED <<Elsewhere, Inputs, timestamps, frame_count, prev_frame,
                   min_scene_length, subclip_duration, scene_idx, last_read,
                   FillLocals, result, decode_calls, failure>>

\* one iteration of "while cap.isOpened()": cap.read(), the two skips, the
\* grey-level comparison with prev_frame and the break on enough scenes
ReadFrame ==
    /\ pc = "scan"
    /\ IF frame_count >= ClipFrames(subclip_duration)
       THEN /\ pc' = "release"
            /\ UNCHANGED <<scene_timestamps, frame_count, prev_frame, last_read>>
       ELSE \E level \in Levels :
            LET frame_time == FrameTime(frame_count)
                last_scene == scene_timestamps[Len(scene_timestamps)]
            IN  /\ frame_count' = frame_count + 1
                /\ last_read' = level
                /\ IF frame_time < first_time
                   THEN /\ pc' = pc
                        /\ UNCHANGED <<scene_timestamps, prev_frame>>
                   ELSE IF /\ Len(scene_timestamps) > 0
                           /\ frame_time - last_scene < min_scene_length
                   THEN /\ pc' = pc
                        /\ UNCHANGED <<scene_timestamps, prev_frame>>
                   ELSE IF /\ prev_frame # NoFrame
                           /\ MeanDiff(prev_frame, level) > threshold
                   THEN /\ scene_timestamps' =
                               Append(scene_timestamps, OriginalTime(frame_time))
                        /\ IF Len(scene_timestamps) + 1 >= middle_frames
                           THEN /\ pc' = "release"
                                /\ prev_frame' = prev_frame
                           ELSE /\ pc' = pc
                                /\ prev_frame' = level
                   ELSE /\ pc' = pc
                        /\ prev_frame' = level
                        /\ scene_timestamps' = scene_timestamps
    /\ UNCHANGED <<Elsewhere, Inputs, timestamps, min_scene_length, subclip_duration,
                   scene_idx, FillLocals, result, Effects, failure, detection>>

\* an except clause that only guards the scan: the scenes found before the
\* exception go on to the acceptance loop
ScanThrowsKeepsPartial ==
    /\ pc = "scan"
    /\ frame_count < ClipFrames(subclip_duration)
    /\ scene_timestamps' = scene_timestamps
    /\ scene_idx' = 1
    /\ pc' = IF Len(scene_timestamps) > 0 THEN "accept" ELSE "fallback"
    /\ detection' = "scan_threw"
    /\ UNCHANGED <<Elsewhere, Inputs, timestamps, frame_count, prev_frame, min_scene_length,
                   subclip_duration, last_read, FillLocals, result, Effects, failure>>

\* the decoder raises inside the loop: the except clause skips cap.release,
\* os.remove and the acceptance loop, and sets scene_timestamps = []
ScanThrows ==
    /\ pc = "scan"
    /\ frame_count < ClipFrames(subclip_duration)
    /\ scene_timestamps' = <<>>
    /\ pc' = "fallback"
    /\ detection' = "scan_threw"
    /\ UNCHANGED <<Elsewhere, Inputs, timestamps, frame_count, prev_frame, min_scene_length,
                   subclip_duration, scene_idx, last_read, FillLocals, result, Effects,
                   failure>>

\* cap.release(); os.remove(temp_video_path); "if scene_timestamps:" and
\* scene_timestamps = sorted(set(scene_timestamps))
Release ==
    /\ pc = "release"
    /\ temp_files' = temp_files - 1
    /\ detection' = "ok"
    /\ scene_timestamps' = SortedSet(scene_timestamps)
    /\ scene_idx' = 1
    /\ pc' = IF Len(scene_timestamps) > 0 THEN "accept" ELSE "fallback"
    /\ UNCHANGED <<Elsewhere, Inputs, timestamps, frame_count, prev_frame,
                   min_scene_length, subclip_duration, last_read, FillLocals, result,
                   decode_calls, reencode_calls, failure>>

\* "for time in scene_timestamps[:middle_frames]" has another element
MoreScenes == scene_idx + 1 <= Min(Len(scene_timestamps), middle_frames)

\* one iteration of the acceptance loop
AcceptScene ==
    /\ pc = "accept"
    /\ LET time == scene_timestamps[scene_idx]
       IN  IF ~SceneAccepted(time)
           THEN UNCHANGED <<timestamps, decode_calls>>
           ELSE /\ decode_calls' = decode_calls + 1
                /\ timestamps' = Append(timestamps, time)
    /\ pc' = IF MoreScenes THEN pc ELSE "fallback"
    /\ scene_idx' = scene_idx + 1
    /\ UNCHANGED <<Elsewhere, Inputs, scene_timestamps, frame_count, prev_frame,
                   min_scene_length, subclip_duration, last_read, FillLocals, result,
                   temp_files, reencode_calls, failure, detection>>

\* video.get_frame(time) raises inside the try block: the except clause
\* keeps the frames appended so far and abandons the other scenes
AcceptSceneFails ==
    /\ pc = "accept"
    /\ SceneAccepted(scene_timestamps[scene_idx])
    /\ decode_calls' = decode_calls + 1
    /\ scene_timestamps' = <<>>
    /\ pc' = "fallback"
    /\ detection' = "frame_threw"
    /\ UNCHANGED <<Elsewhere, Inputs, timestamps, frame_count, prev_frame,
                   min_scene_length, subclip_duration, scene_idx, last_read, FillLocals,
                   result, temp_files, reencode_calls, failure>>

\* a fallback that also avoids the timestamps an earlier call returned: a
\* cache kept between calls
StartFillCached ==
    /\ pc = "fallback"
    /\ IF NeedsFill /\ max_frames - 1 - Len(timestamps) > 0
       THEN /\ remaining_frames' = max_frames - 1 - Len(timestamps)
            /\ existing_timestamps' =
                   Range(timestamps) \cup
                       (IF earlier.made THEN Range(earlier.result) ELSE {})
            /\ step' = duration \div (max_frames - 1 - Len(timestamps) + 2)
            /\ fill_i' = 1
            /\ pc' = "fill"
       ELSE /\ pc' = "last"
            /\ UNCHANGED FillLocals
    /\ UNCHANGED <<Elsewhere, Inputs, timestamps, ScanLocals, result, Effects, failure, detection>>
\* "if len(frames) < max_frames - 1": remaining_frames, existing_timestamps
\* and step of the evenly spaced fallback
StartFill ==
    /\ pc = "fallback"
    /\ IF NeedsFill /\ max_frames - 1 - Len(timestamps) > 0
       THEN /\ remaining_frames' = max_frames - 1 - Len(timestamps)
            /\ existing_timestamps' = Range(timestamps)
            /\ step' = duration \div (max_frames - 1 - Len(timestamps) + 2)
            /\ fill_i' = 1
            /\ pc' = "fill"
       ELSE /\ pc' = "last"
            /\ UNCHANGED FillLocals
    /\ UNCHANGED <<Elsewhere, Inputs, timestamps, ScanLocals, result, Effects, failure, detection>>

\* one iteration of "for i in range(1, remaining_frames + 1)"
FillStep ==
    /\ pc = "fill"
    /\ LET time == FillCandidate(fill_i)
       IN  IF ~FillAccepted(time)
           THEN UNCHANGED <<timestamps, existing_timestamps, decode_calls>>
           ELSE /\ decode_calls' = decode_calls + 1
                /\ timestamps' = Append(timestamps, time)
                /\ existing_timestamps' = existing_timestamps \cup {time}
    /\ fill_i' = fill_i + 1
    /\ pc' = IF fill_i + 1 <= remaining_frames THEN pc ELSE "last"
    /\ UNCHANGED <<Elsewhere, Inputs, ScanLocals, remaining_frames, step, result, temp_files,
                   reencode_calls, failure, detection>>

FillStepFails ==
    /\ pc = "fill"
    /\ FillAccepted(FillCandidate(fill_i))
    /\ DecodeRaises

\* the end anchor, the final sort by timestamp and the return
LastAnchor ==
    /\ pc = "last"
    /\ IF ~EndAnchorAccepted
       THEN /\ result' = Sorted(timestamps)
            /\ UNCHANGED <<timestamps, decode_calls>>
       ELSE /\ decode_calls' = decode_calls + 1
            /\ timestamps' = Append(timestamps, last_time)
            /\ result' = Sorted(Append(timestamps, last_time))
    /\ pc' = "returned"
    /\ UNCHANGED <<Elsewhere, Inputs, ScanLocals, FillLocals, temp_files, reencode_calls,
                   failure, detection>>

LastAnchorFails ==
    /\ pc = "last"
    /\ EndAnchorAccepted
    /\ DecodeRaises

Next ==
    \/ Call
    \/ Discard
    \/ FirstAnchor
    \/ FirstAnchorFails
    \/ Reencode
    \/ ReencodeFails
    \/ ReadFrame
    \/ ScanThrows
    \/ Release
    \/ AcceptScene
    \/ AcceptSceneFails
    \/ StartFill
    \/ FillStep
    \/ FillStepFails
    \/ LastAnchor
    \/ LastAnchorFails

Spec == Init /\ [][Next]_vars

\* ------------------------------------------------- two calls, no scene found
\* the caller keeps the returned list and the arguments of a call
Remember ==
    /\ pc = "returned"
    /\ earlier = NoCall
    /\ earlier' = [made |-> TRUE, duration |-> duration, max_frames |-> max_frames,
                   result |-> result]
    /\ DiscardLocals
    /\ UNCHANGED <<AudioVars, VideoVars, DbVars>>

\* a call; after a remembered call, a call with the same duration and max_frames
PairCall ==
    /\ Call
    /\ earlier.made =>
            /\ duration' = earlier.duration
            /\ max_frames' = earlier.max_frames

\* cap.read() of a frame that starts no scene
ReadNoScene ==
    /\ ReadFrame
    /\ scene_timestamps' = <<>>

\* the steps of calls that return, with a scan that yields no scene
PairNext ==
    \/ PairCall
    \/ Remember
    \/ FirstAnchor
    \/ Reencode
    \/ ReencodeFails
    \/ ReadNoScene
    \/ ScanThrows
    \/ Release
    \/ StartFill
    \/ FillStep
    \/ LastAnchor

PairSpec == Init /\ [][PairNext]_vars

\* --------------------------------------------- extract_and_transcribe_audio
\* audio.fps, in frames of sound per second
AudioRates == {1, 2}
\* the values of one channel of one frame of sound
SampleValues == {-2, 0, 2}
\* the frames of sound of a track: one value per channel
Sounds(nchannels) ==
    UNION { [1..n -> [1..nchannels -> SampleValues]] : n \in 0..MaxSamples }
\* video.audio of a video that has an audio track
AudioTracks ==
    { [present |-> TRUE, fps |-> r, nchannels |-> c, sound |-> w] :
        r \in AudioRates, c \in {1}, w \in Sounds(1) }
    \cup
    { [present |-> TRUE, fps |-> r, nchannels |-> c, sound |-> w] :
        r \in AudioRates, c \in {2}, w \in Sounds(2) }
\* what a step of extract_and_transcribe_audio never touches
SamplerVars == <<pc, Inputs, timestamps, ScanLocals, FillLocals, result, Effects,
                 failure, detection, earlier, VideoVars, DbVars>>

\* return "No audio track found in video."
NoAudioTrack == <<"No audio track found in video.">>
\* return "Audio too short to transcribe."
AudioTooShort == <<"Audio too short to transcribe.">>
\* the placeholder transcription
SampleTranscription == <<"This is a sample transcription">>
\* f"Error transcribing audio: {str(e)}"
ErrorTranscribing(e) == <<"Error transcribing audio: ", e>>
\* the calls inside the try block that can raise
AudioErrors == {"to_soundarray", "transcribe_audio"}

\* np.mean(audio_array, axis=1)
MeanOverChannels(a) ==
    [n \in 1..Len(a) |-> (a[n][1] + a[n][2]) \div 2]
\* models.speech_model.transcribe_audio(audio_array, sample_rate)
transcribe_audio(a, rate) ==
    IF Len(a) < rate THEN AudioTooShort ELSE SampleTranscription

\* an exception handler that re-raises
ExceptReraises(e) ==
    /\ apc' = "raised"
    /\ transcript' = transcript
\* except Exception as e: return f"Error transcribing audio: {str(e)}"
Except(e) ==
    /\ apc' = "returned"
    /\ transcript' = ErrorTranscribing(e)

\* extract_and_transcribe_audio(video): entry, audio = video.audio
AudioCall ==
    /\ apc = "idle"
    /\ \E a \in AudioTracks \cup {NoAudio} : audio' = a
    /\ apc' = "audio"
    /\ UNCHANGED <<SamplerVars, audio_array, sample_rate, transcript, transcribe_calls>>

\* if audio is None: return "No audio track found in video."
CheckAudio ==
    /\ apc = "audio"
    /\ IF ~audio.present
       THEN /\ transcript' = NoAudioTrack
            /\ apc' = "returned"
       ELSE /\ transcript' = transcript
            /\ apc' = "soundarray"
    /\ UNCHANGED <<SamplerVars, audio, audio_array, sample_rate, transcribe_calls>>

\* audio_array = audio.to_soundarray(); sample_rate = audio.fps
ToSoundArray ==
    /\ apc = "soundarray"
    /\ audio_array' = audio.sound
    /\ sample_rate' = audio.fps
    /\ apc' = "mono"
    /\ UNCHANGED <<SamplerVars, audio, transcript, transcribe_calls>>

\* audio.to_soundarray() raises
ToSoundArrayFails ==
    /\ apc = "soundarray"
    /\ Except("to_soundarray")
    /\ UNCHANGED <<SamplerVars, audio, audio_array, sample_rate, transcribe_calls>>

\* if audio_array.ndim > 1 and audio_array.shape[1] > 1: mean over axis 1
ToMono ==
    /\ apc = "mono"
    /\ audio_array' = IF audio.nchannels > 1
                      THEN MeanOverChannels(audio_array)
                      ELSE audio_array
    /\ apc' = "transcribe"
    /\ UNCHANGED <<SamplerVars, audio, sample_rate, transcript, transcribe_calls>>

\* transcript = transcribe_audio(audio_array, sample_rate); return transcript
Transcribe ==
    /\ apc = "transcribe"
    /\ transcribe_calls' = transcribe_calls + 1
    /\ transcript' = transcribe_audio(audio_array, sample_rate)
    /\ apc' = "returned"
    /\ UNCHANGED <<SamplerVars, audio, audio_array, sample_rate>>

\* the import of models.speech_model or the call of transcribe_audio raises
TranscribeFails ==
    /\ apc = "transcribe"
    /\ transcribe_calls' = transcribe_calls + 1
    /\ Except("transcribe_audio")
    /\ UNCHANGED <<SamplerVars, audio, audio_array, sample_rate>>

AudioNext ==
    \/ AudioCall
    \/ CheckAudio
    \/ ToSoundArray
    \/ ToSoundArrayFails
    \/ ToMono
    \/ Transcribe
    \/ TranscribeFails

AudioSpec == Init /\ [][AudioNext]_vars

\* ------------------------------------------------------------ process_video
\* def extract_strategic_frames(video, options, max_frames=7)
DefaultMaxFrames == 7
\* for i, frame in enumerate(frames[:5]): the hosted model's limit
HostedFrameLimit == 5
\* video.duration of the uploaded files
VideoDurations == {0, 2 * Scale, 6 * Scale}
\* the analysis options read by process_video
Options == [analyze_video_frames : BOOLEAN, extract_audio : BOOLEAN,
            transcribe_audio : BOOLEAN, generate_video_summary : BOOLEAN]
\* what extract_and_transcribe_audio can return
Transcripts ==
    {NoAudioTrack, AudioTooShort, SampleTranscription}
        \cup { ErrorTranscribing(e) : e \in AudioErrors }
\* what a step of process_video outside the sampler never touches
OutsideVideo ==
    <<pc, Inputs, timestamps, ScanLocals, FillLocals, result, Effects, failure,
      detection, earlier, AudioVars, DbVars>>

\* results = {'file_type': 'video', ..., 'key_frames': [], 'transcript': '',
\* 'summary': '', ...}
InitialResults ==
    [file_type |-> "video", key_frames |-> <<>>, transcript |-> <<>>, summary |-> <<>>]
\* one entry per analysed frame: 'time': frame_timestamps[i], 'frame_number': i + 1
KeyFrames(n) ==
    [i \in 1..n |-> [time |-> frame_timestamps[i], frame_number |-> i]]
\* ' '.join(frame_descriptions) + ' ' + results['transcript']
content_to_summarize == <<Len(results.key_frames), results.transcript>>
\* models.text_analyzer.summarize_text(content_to_summarize)
summarize_text(text) == <<"summary of", text>>

\* except Exception as e: remove the temporary copy, return the error dict;
\* the finally clause finds the copy gone
ProcessExcept(e) ==
    /\ results' = [file_type |-> "video", error |-> <<"Error processing video: ", e>>]
    /\ temp_path' = FALSE
    /\ vpc' = "returned"

\* process_video(file, options): entry and gemini = GeminiIntegration()
ProcessVideo ==
    /\ vpc = "idle"
    /\ pc = "idle"
    /\ \E o \in Options, g \in BOOLEAN :
        /\ options' = o
        /\ gemini' = g
    /\ vpc' = "save"
    /\ UNCHANGED <<frame_timestamps, results, temp_path, OutsideVideo>>

\* with tempfile.NamedTemporaryFile(delete=False, suffix='.mp4'): write the upload
SaveUpload ==
    /\ vpc = "save"
    /\ temp_path' = TRUE
    /\ vpc' = "open"
    /\ UNCHANGED <<options, gemini, frame_timestamps, results, OutsideVideo>>

\* temp_file.write(file.getvalue()) raises, before the try block: the file
\* created with delete=False stays and the exception leaves process_video
SaveUploadFails ==
    /\ vpc = "save"
    /\ temp_path' = TRUE
    /\ vpc' = "raised"
    /\ UNCHANGED <<options, gemini, frame_timestamps, results, OutsideVideo>>

\* video = VideoFileClip(temp_path), the metadata and the initial results
OpenVideo ==
    /\ vpc = "open"
    /\ results' = InitialResults
    /\ vpc' = IF options.analyze_video_frames THEN "sample" ELSE "audio"
    /\ UNCHANGED <<options, gemini, frame_timestamps, temp_path, OutsideVideo>>

\* VideoFileClip(temp_path) raises
OpenVideoFails ==
    /\ vpc = "open"
    /\ ProcessExcept("open")
    /\ UNCHANGED <<options, gemini, frame_timestamps, OutsideVideo>>

\* extract_strategic_frames(video, options): the call, with the default max_frames
SampleFrames ==
    /\ vpc = "sample"
    /\ Call
    /\ max_frames' = DefaultMaxFrames
    /\ duration' \in VideoDurations

\* extracted_frames, frame_timestamps = the lists the sampler returned
FramesReturned ==
    /\ vpc = "sample"
    /\ pc = "returned"
    /\ DiscardLocals
    /\ frame_timestamps' = result
    /\ vpc' = IF gemini THEN "hosted" ELSE "basic"
    /\ UNCHANGED <<options, gemini, results, temp_path, earlier, AudioVars, DbVars>>

\* the sampler raised: the except clause of process_video
SamplerRaised ==
    /\ vpc = "sample"
    /\ pc = "raised"
    /\ DiscardLocals
    /\ ProcessExcept("sample")
    /\ UNCHANGED <<options, gemini, frame_timestamps, earlier, AudioVars, DbVars>>

\* gemini.analyze_video_content(pil_frames, video_info) and the loop over
\* analysis_results['frame_analyses']; no frames gives an error dict, which
\* has none of the keys read
HostedAnalysis ==
    /\ vpc = "hosted"
    /\ results' =
           IF frame_timestamps = <<>>
           THEN results
           ELSE [results EXCEPT
                    !.summary = <<"overall_analysis">>,
                    !.key_frames =
                        KeyFrames(Min(Len(frame_timestamps), HostedFrameLimit))]
    /\ vpc' = "audio"
    /\ UNCHANGED <<options, gemini, frame_timestamps, temp_path, OutsideVideo>>

\* the hosted model fails: analyze_video_content returns {"error": ...}
HostedAnalysisErrors ==
    /\ vpc = "hosted"
    /\ frame_timestamps # <<>>
    /\ vpc' = "audio"
    /\ UNCHANGED <<options, gemini, frame_timestamps, results, temp_path, OutsideVideo>>

\* results['key_frames'] = basic_frame_analysis(extracted_frames, frame_timestamps)
BasicAnalysis ==
    /\ vpc = "basic"
    /\ results' = [results EXCEPT !.key_frames = KeyFrames(Len(frame_timestamps))]
    /\ vpc' = "audio"
    /\ UNCHANGED <<options, gemini, frame_timestamps, temp_path, OutsideVideo>>

\* the conversion or the analysis of a frame raises
AnalysisRaises ==
    /\ vpc \in {"hosted", "basic"}
    /\ frame_timestamps # <<>>
    /\ ProcessExcept("analysis")
    /\ UNCHANGED <<options, gemini, frame_timestamps, OutsideVideo>>

\* results['transcript'] = extract_and_transcribe_audio(video)
TranscribeVideo ==
    /\ vpc = "audio"
    /\ IF options.extract_audio /\ options.transcribe_audio
       THEN \E t \in Transcripts : results' = [results EXCEPT !.transcript = t]
       ELSE results' = results
    /\ vpc' = "summary"
    /\ UNCHANGED <<options, gemini, frame_timestamps, temp_path, OutsideVideo>>

\* if 'summary' not in results and options.get('generate_video_summary', True)
SummarizeVideo ==
    /\ vpc = "summary"
    /\ IF /\ "summary" \notin DOMAIN results
          /\ options.generate_video_summary
          /\ content_to_summarize # <<0, <<>>>>
       THEN results' = [results EXCEPT !.summary = summarize_text(content_to_summarize)]
       ELSE results' = results
    /\ vpc' = "close"
    /\ UNCHANGED <<options, gemini, frame_timestamps, temp_path, OutsideVideo>>

\* video.close(); return results; the finally clause removes the temporary copy
CloseVideo ==
    /\ vpc = "close"
    /\ temp_path' = FALSE
    /\ vpc' = "returned"
    /\ UNCHANGED <<options, gemini, frame_timestamps, results, OutsideVideo>>

VideoNext ==
    \/ ProcessVideo
    \/ SaveUpload
    \/ SaveUploadFails
    \/ OpenVideo
    \/ OpenVideoFails
    \/ SampleFrames
    \/ FirstAnchor
    \/ FirstAnchorFails
    \/ Reencode
    \/ ReencodeFails
    \/ ReadFrame
    \/ ScanThrows
    \/ Release
    \/ AcceptScene
    \/ AcceptSceneFails
    \/ StartFill
    \/ FillStep
    \/ FillStepFails
    \/ LastAnchor
    \/ LastAnchorFails
    \/ FramesReturned
    \/ SamplerRaised
    \/ HostedAnalysis
    \/ HostedAnalysisErrors
    \/ BasicAnalysis
    \/ AnalysisRaises
    \/ TranscribeVideo
    \/ SummarizeVideo
    \/ CloseVideo

VideoSpec == Init /\ [][VideoNext]_vars

\* ------------------------------------------------------------- FileDatabase
\* the FileDatabase objects of the app runs
Instances == 1..MaxInstances
\* the file ids _generate_file_id gives the uploaded files
FileIds == {"report_0a1b2c3d", "clip_4e5f6a7b", "scan_8c9d0e1f"}
\* what a step of a FileDatabase never touches
OutsideDb ==
    <<pc, Inputs, timestamps, ScanLocals, FillLocals, result, Effects, failure,
      detection, earlier, AudioVars, VideoVars>>

\* self._save_index(): the whole in-memory index replaces the index file
SaveIndex(files) == index_file' = [exists |-> TRUE, files |-> files]

\* FileDatabase(): load index.json if it exists, else write an empty index
NewFileDatabase(i) ==
    /\ i \notin loaded
    /\ loaded' = loaded \cup {i}
    /\ IF index_file.exists
       THEN /\ index' = [index EXCEPT ![i] = index_file.files]
            /\ index_file' = index_file
       ELSE /\ index' = [index EXCEPT ![i] = {}]
            /\ SaveIndex({})
    /\ UNCHANGED <<kept, OutsideDb>>

\* db.save_file_results(file_name, file_content, results)
save_file_results(i, file_id) ==
    /\ i \in loaded
    /\ index' = [index EXCEPT ![i] = @ \cup {file_id}]
    /\ SaveIndex(index[i] \cup {file_id})
    /\ kept' = kept \cup {file_id}
    /\ UNCHANGED <<loaded, OutsideDb>>

\* db.delete_file(file_id): False when the instance's index has no such file
delete_file(i, file_id) ==
    /\ i \in loaded
    /\ IF file_id \notin index[i]
       THEN UNCHANGED <<index, index_file, kept>>
       ELSE /\ index' = [index EXCEPT ![i] = @ \ {file_id}]
            /\ SaveIndex(index[i] \ {file_id})
            /\ kept' = kept \ {file_id}
    /\ UNCHANGED <<loaded, OutsideDb>>

DbNext ==
    \/ \E i \in Instances : NewFileDatabase(i)
    \/ \E i \in Instances, f \in FileIds : save_file_results(i, f)
    \/ \E i \in Instances, f \in FileIds : delete_file(i, f)

DbSpec == Init /\ [][DbNext]_vars

\* ----------------------------------------------------------------- sanity
TypeOK ==
    /\ pc \in {"idle", "first", "reencode", "scan", "release", "accept", "fallback",
               "fill", "last", "returned", "raised"}
    /\ duration \in Durations \cup LongDurations \cup {0}
    /\ max_frames \in FrameBudgets
    /\ temp_files \in 0..MaxTempFiles
    /\ failure \in {"none", "decode"}
    /\ detection \in {"none", "running", "ok", "reencode_failed", "scan_threw",
                      "frame_threw"}

\* every quotient the code computes is a whole number of ticks
GridExact ==
    /\ duration % 10 = 0
    /\ pc \in {"fill", "last"} /\ remaining_frames > 0
          => duration % (remaining_frames + 2) = 0
    /\ pc \in {"scan", "release"} => subclip_duration % (middle_frames * 2) = 0
    /\ Scale % fps = 0

\* ------------------------------------------------------ claim vocabulary
Returned == pc = "returned"
LastOf(s) == s[Len(s)]
\* the timestamps of result that came out of the scene scan
SceneFrames == { t \in Range(scene_timestamps) \cap Range(result) : SceneAccepted(t) }
\* the timestamps of result that came out of the evenly spaced fallback
FillFrames == (existing_timestamps \ Range(scene_timestamps)) \ {first_time}
NoDecodeWork == decode_calls = 0 /\ reencode_calls = 0 /\ frame_count = 0

\* the list the code returns when the scan yields no scene: the start
\* anchor, the evenly spaced frames over max_frames - 2 slots, the end anchor
RECURSIVE EvenlySpaced(_, _, _, _)
EvenlySpaced(i, n, st, chosen) ==
    IF i > n THEN chosen
    ELSE LET time == Min(first_time + (i * st), duration - OneSecond)
         IN  EvenlySpaced(i + 1, n, st,
                 IF TooClose(time, Range(chosen)) THEN chosen ELSE Append(chosen, time))
ZeroSceneResult ==
    LET middle == IF 1 < max_frames - 1
                  THEN EvenlySpaced(1, max_frames - 2, duration \div max_frames,
                                    <<first_time>>)
                  ELSE <<first_time>>
    IN  Sorted(IF TooClose(last_time, Range(middle)) THEN middle
               ELSE Append(middle, last_time))

\* ----------------------------------------------------------------- claims
\* C1: for every duration > 0 and every max_frames >= 1 the returned list has
\* at most max_frames entries.
C1_AtMostMaxFrames ==
    (Returned /\ duration > 0 /\ max_frames >= 1) => Len(result) <= max_frames

C3_FirstAtStartAnchor ==
    /\ (Returned /\ Len(result) >= 2) => result[1] <= first_time
    /\ \A n \in 1..Len(timestamps) : timestamps[n] >= first_time

C3_Witness ==
    /\ Returned
    /\ Len(result) >= 3
    /\ SceneFrames # {}
    /\ (duration - OneSecond) \in FillFrames
    /\ first_time + (remaining_frames * step) > duration - OneSecond

\* C4: for duration > 0 and max_frames >= 1 the returned timestamps are
\* strictly increasing.
C4_StrictlyIncreasing ==
    (Returned /\ duration > 0 /\ max_frames >= 1) =>
        \A n \in 1..(Len(result) - 1) : result[n] < result[n + 1]

C4_Witness ==
    /\ Returned
    /\ max_frames >= 1
    /\ Len(result) >= 4
    /\ timestamps # result

\* C5: adjacent returned timestamps are at least 1.0 s apart, unless
\* duration < max_frames * 1.0.
C5_AdjacentSpacing ==
    Returned =>
        \/ \A n \in 1..(Len(result) - 1) : result[n + 1] - result[n] >= MinSpacing
        \/ duration < max_frames * OneSecond

C5_Witness ==
    /\ Returned
    /\ duration >= max_frames * OneSecond
    /\ SceneFrames # {}
    /\ FillFrames # {}
    /\ last_time \in Range(result)

\* C6: a decode failure for a requested timestamp never makes the sampler
\* raise: the timestamp is skipped and the others are returned.
C6_DecodeFailureNeverRaises ==
    (duration > 0 /\ max_frames >= 1 /\ failure = "decode") => pc # "raised"

\* C7: when the sampler returns, no temporary sub-clip file is left on disk.
C7_NoTempFileLeft == Returned => temp_files = 0

\* C8: a failed scene detection (re-encode failure, decoder exception in the
\* scan) is not raised to the caller, and the list returned after it is the
\* list returned when the scan finds no scene.
C8_DetectionFailureIsZeroScenes ==
    /\ detection \in {"reencode_failed", "scan_threw"} =>
          /\ pc \in {"fallback", "fill", "last", "returned", "raised"}
          /\ pc = "raised" => decode_calls > 1
    /\ (/\ Returned
        /\ \/ detection \in {"reencode_failed", "scan_threw"}
           \/ detection = "ok" /\ scene_timestamps = <<>>)
          => result = ZeroSceneResult

C8_Witness ==
    /\ Returned
    /\ detection = "scan_threw"
    /\ frame_count >= 3
    /\ Len(result) >= 4

\* C9 as stated: max_frames < 1 or a negative duration is rejected as a
\* failure before any decode work.
C9_InvalidConfigRejected ==
    (pc # "idle" /\ (max_frames < 1 \/ duration < 0)) => (pc = "raised" /\ NoDecodeWork)

\* C9 as amended: a negative duration is not rejected, the call returns the
\* empty list before any decode work; max_frames < 1 is not rejected either,
\* with duration > 0 the start anchor is decoded, neither scene detection
\* nor the fallback runs and the start anchor is returned, with the end
\* anchor; a call fails only after a frame decode was attempted.
C9_InvalidConfigNotRejected ==
    /\ (pc # "idle" /\ duration < 0) => (Returned /\ result = <<>> /\ NoDecodeWork)
    /\ pc = "raised" => decode_calls >= 1
    /\ (Returned /\ max_frames < 1 /\ duration > 0) =>
          /\ reencode_calls = 0
          /\ remaining_frames = 0
          /\ result \in {<<first_time>>, <<first_time, last_time>>}

C9_Witness ==
    /\ Returned
    /\ max_frames < 1
    /\ result = <<first_time, last_time>>

\* C10: for duration > 0 and max_frames >= 1 a call that returns yields at
\* least one frame.
C10_AtLeastOneFrame ==
    (Returned /\ duration > 0 /\ max_frames >= 1) => Len(result) >= 1

C10_Witness ==
    /\ Returned
    /\ duration > 0
    /\ max_frames >= 1
    /\ failure = "none"
    /\ detection \in {"none", "ok"}
    /\ Len(result) = 1

\* n tenths of a second
Tenths(n) == (n * Scale) \div 10

\* C11: with duration <= 0 the call returns the empty list at once: no frame
\* is decoded, no sub-clip is re-encoded and no frame is scanned.
C11_NonPositiveDurationIsEmpty ==
    (pc # "idle" /\ duration <= 0) =>
        /\ Returned
        /\ result = <<>>
        /\ timestamps = <<>>
        /\ decode_calls = 0
        /\ reencode_calls = 0
        /\ frame_count = 0
        /\ detection = "none"

C11_Witness ==
    /\ Returned
    /\ duration = 0
    /\ max_frames = MaxFrameBudget
    /\ result = <<>>

\* C12: every returned timestamp lies in [0, duration], for every
\* duration > 0 and every max_frames.
C12_TimestampsWithinVideo ==
    (Returned /\ duration > 0) =>
        \A n \in 1..Len(result) : 0 <= result[n] /\ result[n] <= duration

\* a video shorter than 1 s whose fallback candidates, clipped to the negative
\* duration - 1, were all considered
C12_Witness ==
    /\ Returned
    /\ duration > 0
    /\ duration < OneSecond
    /\ remaining_frames >= 1
    /\ fill_i = remaining_frames + 1
    /\ FillCandidate(1) < 0
    /\ Len(result) >= 1

\* Scenario A: duration 10 s, max_frames 7, the scan yields [2, 4, 6, 8]
ScenarioA ==
    /\ Returned
    /\ duration = Tenths(100)
    /\ max_frames = 7
    /\ detection = "ok"
    /\ scene_timestamps = <<Tenths(20), Tenths(40), Tenths(60), Tenths(80)>>

\* C13 as stated: Scenario A returns 0.5, 2, 4, 6, 8 and an end anchor
\* clipped to about 9.0, six timestamps, no fallback frame.
C13_ScenarioAClippedAnchor ==
    ScenarioA =>
        result = <<Tenths(5), Tenths(20), Tenths(40), Tenths(60), Tenths(80), Tenths(90)>>

\* C13 as amended: Scenario A returns exactly 0.5, 2, 4, 6, 8, 9.5: the end
\* anchor is last_time = 9.5, not clipped, and the one fallback candidate
\* is rejected.
C13_ScenarioAResult ==
    ScenarioA =>
        /\ result = <<Tenths(5), Tenths(20), Tenths(40), Tenths(60), Tenths(80), Tenths(95)>>
        /\ remaining_frames = 1
        /\ FillFrames = {}

C13_Witness ==
    /\ ScenarioA
    /\ Len(result) = 6
    /\ fill_i = 2

\* C14: Scenario B, duration 2 s and max_frames 7: scene detection does not
\* run, all five fallback candidates are rejected, the result is [0.2, 1.8].
C14_ScenarioBResult ==
    (Returned /\ duration = Tenths(20) /\ max_frames = 7) =>
        /\ result = <<Tenths(2), Tenths(18)>>
        /\ detection = "none"
        /\ reencode_calls = 0
        /\ frame_count = 0
        /\ remaining_frames = 5
        /\ existing_timestamps = {Tenths(2)}
        /\ decode_calls = 2

C14_Witness ==
    /\ Returned
    /\ duration = Tenths(20)
    /\ max_frames = 7
    /\ fill_i = 6
    /\ Len(result) = 2

\* C15: when the scan yields no scene, two calls with the same duration and
\* max_frames return the same list of timestamps.
C15_SameInputsSameResult ==
    (Returned /\ earlier.made) => result = earlier.result

\* a second call that scanned a clip, found no scene and filled the interior
C15_Witness ==
    /\ Returned
    /\ earlier.made
    /\ detection = "ok"
    /\ frame_count >= 4
    /\ FillFrames # {}
    /\ Len(result) >= 3

\* C16: a video without an audio track yields the sentinel string and the
\* transcription collaborator is never invoked; a failure while extracting or
\* transcribing is returned as a string, never raised.
C16_SentinelAndNoRaise ==
    /\ apc # "raised"
    /\ (apc = "returned" /\ ~audio.present) =>
            /\ transcript = NoAudioTrack
            /\ transcribe_calls = 0
    /\ apc = "returned" =>
            transcript \in {NoAudioTrack, AudioTooShort, SampleTranscription}
                           \cup { ErrorTranscribing(e) : e \in AudioErrors }
    /\ (apc = "returned" /\ audio.present /\ transcribe_calls = 0) =>
            transcript = ErrorTranscribing("to_soundarray")

C16_Witness ==
    /\ apc = "returned"
    /\ ~audio.present
    /\ transcript = NoAudioTrack
    /\ transcribe_calls = 0

\* a failure of the transcription collaborator came back as a string
C16_FailureReturned ==
    /\ apc = "returned"
    /\ audio.present
    /\ transcribe_calls = 1
    /\ transcript = ErrorTranscribing("transcribe_audio")

\* C17 as stated: a scene is emitted at a frame only when that frame differs
\* by more than the threshold from the frame read immediately before it;
\* skipped frames do not change the pair compared.
C17_ComparesAdjacentFrames ==
    [][(pc = "scan" /\ Len(scene_timestamps') > Len(scene_timestamps)) =>
            /\ last_read # NoFrame
            /\ MeanDiff(last_read, last_read') > threshold]_vars

\* the end anchor is dropped in this step
EndAnchorDropped ==
    /\ pc = "last"
    /\ pc' = "returned"
    /\ TooClose(last_time, Range(timestamps))

\* C18 as stated: when the end anchor is dropped the result has exactly
\* max_frames - 1 frames.
C18_DroppedAnchorOneFewer ==
    [][EndAnchorDropped => Len(result') = max_frames - 1]_vars

\* C18 as amended: when the end anchor is dropped the result is the start
\* anchor and the accepted interior frames: at least 1 frame and at most
\* max(1, max_frames - 1).
C18_DroppedAnchorAtMostOneFewer ==
    [][EndAnchorDropped =>
            /\ Len(result') = Len(timestamps)
            /\ Len(result') >= 1
            /\ Len(result') <= Max(1, max_frames - 1)]_vars

\* the anchor was dropped and more than one slot is left unused
C18_Witness ==
    /\ Returned
    /\ duration > 0
    /\ max_frames >= 3
    /\ last_time \notin Range(result)
    /\ Len(result) < max_frames - 1

C20_FallbackRule ==
    [][/\ pc = "fallback" =>
            LET accepted == Len(timestamps) - 1
                remaining == middle_frames - accepted
            IN  IF accepted < middle_frames
                THEN /\ pc' = "fill"
                     /\ remaining_frames' = remaining
                     /\ step' = duration \div (remaining + 2)
                     /\ fill_i' = 1
                     /\ timestamps' = timestamps
                ELSE /\ pc' = "last"
                     /\ timestamps' = timestamps
       /\ (pc = "fill" /\ pc' # "raised") =>
            LET candidate == Min(first_time + fill_i * step, duration - OneSecond)
            IN  /\ fill_i \in 1..remaining_frames
                /\ timestamps' =
                       IF \A t \in Range(timestamps) : Abs(candidate - t) >= OneSecond
                       THEN Append(timestamps, candidate)
                       ELSE timestamps
                /\ fill_i' = fill_i + 1
                /\ pc' = IF fill_i = remaining_frames THEN "last" ELSE "fill"
                /\ UNCHANGED <<remaining_frames, step>>]_vars

\* some scene frames were accepted, the fallback filled the rest, accepting
\* one candidate and rejecting another
C20_Witness ==
    /\ Returned
    /\ SceneFrames # {}
    /\ FillFrames # {}
    /\ remaining_frames >= 2
    /\ Cardinality(FillFrames) < remaining_frames

\* the acceptance loop has gone through every scene of a scan that succeeded
ScenesConsidered == pc = "fallback" /\ detection = "ok"

\* C21: a scene candidate of the scan becomes an interior frame iff it is
\* neither within 1.0 s of first_time nor within 1.0 s of duration.
C21_SceneAcceptedIffSpaced ==
    ScenesConsidered =>
        \A n \in 1..Len(scene_timestamps) :
            LET t == scene_timestamps[n]
            IN  /\ t \in Range(timestamps) <=>
                       /\ Abs(t - first_time) >= OneSecond
                       /\ Abs(duration - t) >= OneSecond
                /\ t \in Range(timestamps) =>
                       /\ t - first_time >= OneSecond
                       /\ duration - t >= OneSecond

\* one scene rejected near the start, one accepted, one rejected near the end
C21_Witness ==
    /\ ScenesConsidered
    /\ \E t \in Range(scene_timestamps) : Abs(t - first_time) < OneSecond
    /\ \E t \in Range(scene_timestamps) : duration - t < OneSecond
    /\ \E t \in Range(scene_timestamps) : t \in Range(timestamps)

\* C22 as stated: the first scene candidate of a scan is at least
\* min_scene_length after first_time.
C22_FirstSceneAfterSpacing ==
    (pc \in {"scan", "release"} /\ Len(scene_timestamps) > 0) =>
        scene_timestamps[1] >= first_time + min_scene_length

\* the scene list of a scan, while it runs and when it ends
Scanning == pc \in {"scan", "release"}
\* the gaps between consecutive scenes of the scan
SceneGaps ==
    { scene_timestamps[n + 1] - scene_timestamps[n] : n \in 1..(Len(scene_timestamps) - 1) }

\* C23 as stated: consecutive scenes of a scan are at least
\* max(1.0, windowDuration / (2 * (max_frames - 2))) apart, windowDuration
\* being the length of [first_time, duration].
C23_SpacingOfWindow ==
    Scanning =>
        \A g \in SceneGaps :
            /\ g >= OneSecond
            /\ g * (middle_frames * 2) >= duration - first_time

\* C23 as amended: consecutive scenes of a scan are at least
\* max(1.0, min(duration, 60) / (2 * (max_frames - 2))) apart: the length of
\* the scanned clip [0, min(duration, 60)], not of [first_time, duration].
C23_SpacingOfClip ==
    Scanning =>
        \A g \in SceneGaps :
            g >= Max(OneSecond, Min(duration, LongVideo) \div (middle_frames * 2))

\* two scenes of a long video exactly the minimum apart, closer than the
\* spacing counted over [first_time, duration]
C23_Witness ==
    /\ pc = "release"
    /\ duration > LongVideo
    /\ Len(scene_timestamps) = 2
    /\ scene_timestamps[2] - scene_timestamps[1] = LongVideo \div (middle_frames * 2)
    /\ (scene_timestamps[2] - scene_timestamps[1]) * (middle_frames * 2)
           < duration - first_time

\* C24: for a video longer than 60 s the scan reads only the frames of the
\* first 60 s, every scene time is the time of a frame read, on the timeline
\* of the whole video, and the scene-derived frames lie in [first_time, 60].
C24_LongVideoScansFirstMinute ==
    (duration > LongVideo) =>
        /\ pc \in {"scan", "release", "accept"} =>
                /\ subclip_duration = LongVideo
                /\ frame_count <= 60 * fps
                /\ \A t \in Range(scene_timestamps) :
                        /\ first_time <= t
                        /\ t <= LongVideo
                        /\ \E n \in 0..(frame_count - 1) : t = FrameTime(n)
        /\ (pc \in {"accept", "fallback"} /\ detection = "ok") =>
                Range(timestamps) \subseteq {first_time} \cup Range(scene_timestamps)

\* a long video scanned to the end of its first minute, one scene accepted
C24_Witness ==
    /\ duration > LongVideo
    /\ ScenesConsidered
    /\ frame_count = 60 * fps
    /\ Len(timestamps) = 2
    /\ timestamps[2] > 30 * Scale

\* C25 as stated: when the scan fails partway the scenes collected before the
\* failure are kept for the acceptance loop.
C25_PartialScenesKept ==
    [][(pc = "scan" /\ detection' = "scan_threw") =>
            scene_timestamps' = scene_timestamps]_vars

\* C26: the scan stops as soon as max_frames - 2 scenes are emitted or the
\* clip is exhausted: it never yields more than max_frames - 2 scenes and at
\* most max_frames - 2 scene-derived frames enter the result.
C26_ScanStopsAtMaxScenes ==
    /\ pc \in {"scan", "release", "accept"} => Len(scene_timestamps) <= max_frames - 2
    /\ pc = "scan" => Len(scene_timestamps) < max_frames - 2
    /\ pc = "release" =>
            \/ Len(scene_timestamps) = max_frames - 2
            \/ frame_count = ClipFrames(subclip_duration)
    /\ ScenesConsidered => Len(timestamps) - 1 <= max_frames - 2
    /\ Returned => Cardinality(SceneFrames) <= Max(0, max_frames - 2)

\* the scan stopped before the end of the clip with all its scenes emitted,
\* and they all entered the result
C26_Witness ==
    /\ Returned
    /\ detection = "ok"
    /\ max_frames >= 4
    /\ Len(scene_timestamps) = max_frames - 2
    /\ Cardinality(SceneFrames) = max_frames - 2
    /\ frame_count < ClipFrames(subclip_duration)

\* process_video returned its results dictionary, not the error dictionary
Processed == vpc = "returned" /\ "error" \notin DOMAIN results

\* C27 as stated: the key frames reported by process_video are the sampled
\* frames, one entry per frame in ascending time order, the k-th with
\* frame_number k and the k-th sampled timestamp, with the hosted model and
\* with the basic analysis alike.
C27_KeyFramesAreSampledFrames ==
    (Processed /\ options.analyze_video_frames) =>
        /\ Len(results.key_frames) = Len(frame_timestamps)
        /\ \A k \in 1..Len(frame_timestamps) :
                /\ results.key_frames[k].frame_number = k
                /\ results.key_frames[k].time = frame_timestamps[k]

\* C28 as stated: process_video never raises, and when it returns the
\* temporary copy of the upload has been deleted.
C28_NeverRaisesCopyDeleted ==
    /\ vpc # "raised"
    /\ vpc \in {"returned", "raised"} => ~temp_path

\* C29 as stated: when the frame analysis produced no summary, the
\* generate_video_summary option is on and the descriptions plus transcript
\* are not empty, results['summary'] is the summary of that content.
C29_SummaryOfContent ==
    (/\ Processed
     /\ results.summary # <<"overall_analysis">>
     /\ options.generate_video_summary
     /\ content_to_summarize # <<0, <<>>>>) =>
        results.summary = summarize_text(content_to_summarize)

\* C30 as stated: after any interleaving of save_file_results and delete_file
\* through instances that share one db_path, the index file lists every file
\* that was saved and not later deleted.
C30_IndexListsKeptFiles ==
    index_file.exists => kept \subseteq index_file.files

====
